---- MODULE Spec2Model ----
(***************************************************************************)
(* Model of agent_sdk.models: CacheEntry (touch, relevance scoring,        *)
(* pruning decision), ContextSummary (is_expired), RefreshStatus           *)
(* (mark_complete, add_error), PublishModel and IdeaModel, and of the      *)
(* refresh cycle and summary store the design builds on them.              *)
(*                                                                         *)
(* Time is an integer number of ticks, TicksPerDay ticks to the day;       *)
(* timedelta.days is floor division by TicksPerDay.  Optional[T] is a      *)
(* sequence of length 0 (None) or 1 (the value).  Embedding components are *)
(* small integers and a similarity dot/(sqrt(na)*sqrt(nb)) is kept exactly *)
(* as the pair (dot, na*nb), so comparisons are decided without rounding.  *)
(***************************************************************************)
EXTENDS Integers, Sequences, FiniteSets, TLC

VARIABLES now, entry, last, ghost, pc, tmp, status,
          summaries, cycle, publish, idea, chat

vars == <<now, entry, last, ghost, pc, tmp, status,
          summaries, cycle, publish, idea, chat>>

\* ---------------------------------------------------------------- bounds
TicksPerDay == 2
MaxTime == 6
MaxGiven == 1
MaxDim == 2
MaxTouches == 2
MaxAgeDays == 1
ThresholdDen == 2
NumThreads == 2
MaxErrors == 2
MaxExpiry == 3
MaxTtl == 1
MaxRuns == 2
MaxRetries == 2
MaxPublishTime == 2
MaxIdeas == 2
MaxAddTopics == 3
MaxChatTime == 1

\* ---------------------------------------------------------------- helpers
None == <<>>
Some(x) == <<x>>

Components == {-1, 0, 1}
Vectors == UNION {[1..n -> Components] : n \in 0..MaxDim}
Embeddings == {None} \cup {Some(v) : v \in Vectors}
Thresholds == 0..ThresholdDen
MaxAges == 0..MaxAgeDays
Counts == {-1, 0, 1}
Errors == {"archive", "summary"}

Min(a, b) == IF a < b THEN a ELSE b

RECURSIVE SumTo(_, _)
\* sum(f(i) for i in 1..n)
SumTo(f, n) == IF n = 0 THEN 0 ELSE SumTo(f, n - 1) + f[n]

\* sum(a * b for a, b in zip(x, y)): zip stops at the shorter sequence
zip_dot(x, y) ==
  LET n == Min(Len(x), Len(y))
  IN SumTo([i \in 1..n |-> x[i] * y[i]], n)

\* sum(a * a for a in x)
sum_squares(x) == SumTo([i \in 1..Len(x) |-> x[i] * x[i]], Len(x))

\* ---------------------------------------------------------------- CacheEntry
\* CacheEntry(...): pydantic stores the supplied fields; no field carries a
\* constraint and no validator is declared.
CacheEntry(emb, created, accessed, count) ==
  [embedding |-> emb, created_at |-> created,
   accessed_at |-> accessed, access_count |-> count]

touch_no_increment(e, t) == [e EXCEPT !.accessed_at = t]

\* CacheEntry.touch
touch(e, t) == [e EXCEPT !.accessed_at = t, !.access_count = @ + 1]

\* a float result, or the exception the call ends with
Float(d, m) == [raised |-> "none", dot |-> d, magsq |-> m]
Raise(x) == [raised |-> x, dot |-> 0, magsq |-> 1]
Zero == Float(0, 1)

\* dot_product / (magnitude_a * magnitude_b)
Divide(d, m) == IF m = 0 THEN Raise("ZeroDivisionError") ELSE Float(d, m)

calculate_relevance_score_unguarded(e, q) ==
  IF e.embedding = None \/ Len(q) = 0 THEN Zero
  ELSE LET emb == e.embedding[1]
       IN Divide(zip_dot(emb, q), sum_squares(emb) * sum_squares(q))

calculate_relevance_score_self_normalised(e, q) ==
  IF e.embedding = None \/ Len(q) = 0 THEN Zero
  ELSE LET emb == e.embedding[1]
           magsq_a == sum_squares(emb)
       IN IF magsq_a = 0 \/ sum_squares(q) = 0 THEN Zero
          ELSE Divide(zip_dot(emb, q), magsq_a * magsq_a)

\* CacheEntry.calculate_relevance_score
calculate_relevance_score(e, q) ==
  IF e.embedding = None \/ Len(q) = 0 THEN Zero
  ELSE LET emb == e.embedding[1]
           dot_product == zip_dot(emb, q)
           magsq_a == sum_squares(emb)
           magsq_b == sum_squares(q)
       IN IF magsq_a = 0 \/ magsq_b = 0 THEN Zero
          ELSE Divide(dot_product, magsq_a * magsq_b)

\* (datetime.utcnow() - self.created_at).days
age_days(e, t) == (t - e.created_at) \div TicksPerDay

should_prune_inclusive(e, threshold, max_age_days, t) ==
  age_days(e, t) >= max_age_days

should_prune_by_access(e, threshold, max_age_days, t) ==
  (t - e.accessed_at) \div TicksPerDay > max_age_days

\* CacheEntry.should_prune: threshold is accepted and not read
should_prune(e, threshold, max_age_days, t) ==
  age_days(e, t) > max_age_days

\* score >= p / ThresholdDen, for p >= 0
ScoreGE(s, p) ==
  /\ s.raised = "none"
  /\ s.dot >= 0
  /\ s.dot * s.dot * ThresholdDen * ThresholdDen >= p * p * s.magsq

\* score < p / ThresholdDen, for p >= 0
ScoreLT(s, p) == s.raised = "none" /\ ~ScoreGE(s, p)

\* 0 <= score <= 1
ScoreInUnit(s) ==
  /\ s.raised = "none"
  /\ s.dot >= 0
  /\ s.dot * s.dot <= s.magsq

IsZeroFloat(s) == s.raised = "none" /\ s.dot = 0

\* ---------------------------------------------------------------- RefreshStatus
\* RefreshStatus(started_at=...): the declared defaults
RefreshStatus(started) ==
  [started_at |-> started, completed_at |-> None, success |-> FALSE,
   mnemosyne_available |-> FALSE, context_confidence |-> "0.0",
   entries_pruned |-> 0, summaries_created |-> 0, updates_pushed |-> 0,
   errors |-> <<>>]

mark_complete_without_success(s, success, t) ==
  [s EXCEPT !.completed_at = Some(t)]

\* RefreshStatus.mark_complete
mark_complete(s, success, t) ==
  [s EXCEPT !.completed_at = Some(t), !.success = success]

add_error_unrecorded(s, error) == [s EXCEPT !.success = FALSE]

\* RefreshStatus.add_error
add_error(s, error) ==
  [s EXCEPT !.errors = Append(@, error), !.success = FALSE]

\* ---------------------------------------------------------------- ContextSummary
SummaryIds == {"s1", "s2"}

\* ContextSummary(...): pydantic stores the supplied fields; expires_at is
\* Optional and no validator relates it to created_at.
ContextSummary(created, expires) ==
  [created_at |-> created, expires_at |-> expires]

is_expired_unset_expires(s, t) ==
  IF s.expires_at = None THEN TRUE ELSE t > s.expires_at[1]

\* ContextSummary.is_expired
is_expired(s, t) ==
  IF s.expires_at = None THEN FALSE ELSE t > s.expires_at[1]

GivenExpiries == {None} \cup {Some(t) : t \in 0..MaxExpiry}
Ttls == {None} \cup {Some(d) : d \in 0..MaxTtl}

\* SummaryStore.add_summary: expires_at = now + ttl if ttl is given, else unset
add_summary(t, ttl) ==
  ContextSummary(t, IF ttl = None THEN None ELSE Some(t + ttl[1]))

\* SummaryStore.expire_sweep, with ContextSummary.is_expired as the test
expire_sweep(store, t) ==
  [i \in SummaryIds |->
     IF store[i] # None /\ is_expired(store[i][1], t) THEN None ELSE store[i]]

\* ---------------------------------------------------------------- PublishModel
\* PublishModel(...): the declared defaults
PublishModel(t) ==
  [status |-> "pending_approval", approval_notes |-> None,
   platform_post_id |-> None, platform_url |-> None,
   scheduled_time |-> None, published_at |-> None, metrics |-> None,
   error_message |-> None, retry_count |-> 0,
   created_at |-> t, updated_at |-> t]

Notes == {None, Some("Looks good!")}
PostIds == {"linkedin-12345"}
Urls == {"https://linkedin.com/posts/12345", "https://linkedin.com", "not a url"}
Messages == {"timeout"}

\* HttpUrl validation of an assigned str: None when it is rejected, else the
\* stored URL (a bare host gains its path "/")
HttpUrl(u) ==
  CASE u = "https://linkedin.com/posts/12345" -> Some(u)
    [] u = "https://linkedin.com" -> Some("https://linkedin.com/")
    [] OTHER -> None

\* PublishModel.approve
approve(p, notes, t) ==
  [p EXCEPT !.status = "approved", !.approval_notes = notes, !.updated_at = t]

\* PublishModel.schedule
schedule(p, scheduled_time, t) ==
  [p EXCEPT !.scheduled_time = Some(scheduled_time), !.status = "scheduled",
            !.updated_at = t]

\* PublishModel.mark_publishing
mark_publishing(p, t) == [p EXCEPT !.status = "publishing", !.updated_at = t]

mark_published_without_time(p, post_id, url, t) ==
  IF HttpUrl(url) = None
  THEN [p EXCEPT !.status = "published", !.platform_post_id = Some(post_id)]
  ELSE [p EXCEPT !.status = "published", !.platform_post_id = Some(post_id),
                 !.platform_url = HttpUrl(url), !.updated_at = t]

\* PublishModel.mark_published: the fields are assigned in order under
\* validate_assignment, so a rejected platform_url raises ValidationError
\* after status and platform_post_id were stored
mark_published(p, post_id, url, t) ==
  IF HttpUrl(url) = None
  THEN [p EXCEPT !.status = "published", !.platform_post_id = Some(post_id)]
  ELSE [p EXCEPT !.status = "published", !.platform_post_id = Some(post_id),
                 !.platform_url = HttpUrl(url), !.published_at = Some(t),
                 !.updated_at = t]

\* the exception a mark_published call ends with
mark_published_raises(url) ==
  IF HttpUrl(url) = None THEN "ValidationError" ELSE "none"

mark_failed_without_retry(p, error_message, t) ==
  [p EXCEPT !.status = "failed", !.error_message = Some(error_message),
            !.updated_at = t]

\* PublishModel.mark_failed
mark_failed(p, error_message, t) ==
  [p EXCEPT !.status = "failed", !.error_message = Some(error_message),
            !.retry_count = @ + 1, !.updated_at = t]

\* PublishModel.cancel
cancel(p, t) == [p EXCEPT !.status = "cancelled", !.updated_at = t]

\* PublishModel.update_metrics
update_metrics(p, metrics, t) ==
  [p EXCEPT !.metrics = Some(metrics), !.updated_at = t]

\* how far the calls made on a new record follow the workflow approve,
\* mark_publishing, mark_published: "off" once a call departs from it
Flow(flow, op) ==
  CASE flow = "new" /\ op = "approve" -> "approve"
    [] flow = "approve" /\ op = "mark_publishing" -> "mark_publishing"
    [] flow = "mark_publishing" /\ op = "mark_published" -> "mark_published"
    [] OTHER -> "off"

\* ---------------------------------------------------------------- IdeaModel
\* IdeaModel(...): score is Optional, status defaults to PROCESSING
IdeaModel(score, t) ==
  [id |-> "idea", title |-> "title", topics |-> <<"ai">>, score |-> score,
   status |-> "processing", created_at |-> t, updated_at |-> t]

\* IdeaStatus
IdeaStatuses == {"processing", "scored", "approved", "rejected", "drafted"}

\* overall scores and thresholds, in units of 1 / ThresholdDen; a threshold
\* is any float, also one outside [0, 1]
Overalls == 0..ThresholdDen
IdeaThresholds == (0 - 1)..(ThresholdDen + 1)
IdeaScores == {None} \cup {Some(o) : o \in Overalls}

is_above_threshold_strict(i, threshold) ==
  IF i.score = None THEN FALSE ELSE i.score[1] > threshold

\* IdeaModel.is_above_threshold: an IdeaScore object is truthy whatever its
\* overall, so "not self.score" holds for None only
is_above_threshold(i, threshold) ==
  IF i.score = None THEN FALSE ELSE i.score[1] >= threshold

\* the fields of an IdeaModel other than status and updated_at
IdeaFrame == {"id", "title", "topics", "score", "created_at"}

approve_idea_clearing_score(i, t) ==
  [i EXCEPT !.status = "approved", !.score = None, !.updated_at = t]

\* IdeaModel.approve
approve_idea(i, t) == [i EXCEPT !.status = "approved", !.updated_at = t]

\* IdeaModel.reject
reject_idea(i, t) == [i EXCEPT !.status = "rejected", !.updated_at = t]

\* ---------------------------------------------------------------- RefreshCycle
UpdateIds == {"u1", "u2"}
Steps == {"prune", "summarise", "sweep", "push", "confidence"}

\* a refresh cycle before its first run: no step pending, nothing queued.
\* sent, acked and refused remember the updates enqueued, acknowledged and
\* left unacknowledged by a push or a cancellation so far;
\* ran, failed, acks and cancelled describe the current run.
RefreshCycle ==
  [phase |-> "Idle", step |-> "none", queue |-> <<>>, runs |-> 0,
   sent |-> {}, acked |-> {}, refused |-> {}, atStart |-> <<>>,
   ran |-> {}, failed |-> {}, acks |-> 0, cancelled |-> FALSE]

\* RefreshCycle, start of a run: Idle (or a finished run) -> Running
start_run(c) ==
  [c EXCEPT !.phase = "Running", !.step = "prune", !.runs = @ + 1,
            !.atStart = c.queue,
            !.ran = {}, !.failed = {}, !.acks = 0, !.cancelled = FALSE]

Range(q) == {q[i] : i \in 1..Len(q)}
Outcomes == {"Ack", "Unavailable"}
PrunedCounts == {0, 1}

\* the error a failed step is recorded under
ErrorOf(name) ==
  CASE name = "prune" -> "prune"
    [] name = "summarise" -> "summary"
    [] name = "sweep" -> "sweep"
    [] name = "push" -> "archive"
    [] OTHER -> "confidence"

\* step 5: 1.0 if the archive was reachable and no error occurred, else a
\* fixed degraded value
confidence(s) ==
  IF s.mnemosyne_available /\ s.errors = <<>> THEN "1.0" ELSE "degraded"

\* a step of the run has executed, well or not, and the run goes on
step_done(c, name, ok, next) ==
  [c EXCEPT !.ran = @ \cup {name},
            !.failed = IF ok THEN @ ELSE @ \cup {name},
            !.step = next]

\* the record of a step's outcome: a failure is recorded with add_error
record_step(s, ok, error) == IF ok THEN s ELSE add_error(s, error)

queue_after_push_dropping(q, outcome) == Tail(q)

\* the pending queue after ArchiveClient.push answered for its head: the
\* update leaves the queue on Ack only
queue_after_push(q, outcome) == IF outcome = "Ack" THEN Tail(q) ELSE q

\* ---------------------------------------------------------------- ChatSession
\* topic_weights with no key
EmptyDict == [x \in {} |-> 0]

\* ChatSession(...): the declared defaults
ChatSession(t) ==
  [topics |-> <<>>, topic_weights |-> EmptyDict, message_count |-> 0,
   ideas_generated |-> 0, ideas_accepted |-> 0, ideas_rejected |-> 0,
   created_at |-> t, updated_at |-> t, last_message_at |-> None]

ChatTopics == {"ai", "ml"}
Weights == {1, 2}
Accepted == {Some(TRUE), Some(FALSE), None}

\* ChatSession.touch
touch_session(c, t) == [c EXCEPT !.updated_at = t, !.last_message_at = Some(t)]

add_topic_appending(c, topic, weight) ==
  [c EXCEPT !.topics = Append(@, topic),
            !.topic_weights = [x \in DOMAIN @ \cup {topic} |->
                                 IF x = topic THEN weight ELSE @[x]]]

\* ChatSession.add_topic: append when the list does not hold the topic, then
\* store the weight under the topic
add_topic(c, topic, weight) ==
  [c EXCEPT !.topics = IF \E i \in 1..Len(@) : @[i] = topic
                       THEN @ ELSE Append(@, topic),
            !.topic_weights = [x \in DOMAIN @ \cup {topic} |->
                                 IF x = topic THEN weight ELSE @[x]]]

record_idea_uncounted(c, accepted, t) ==
  touch_session(
    [c EXCEPT !.ideas_accepted = IF accepted = Some(TRUE) THEN @ + 1 ELSE @,
              !.ideas_rejected = IF accepted = Some(FALSE) THEN @ + 1 ELSE @],
    t)

\* ChatSession.record_idea
record_idea(c, accepted, t) ==
  touch_session(
    [c EXCEPT !.ideas_generated = @ + 1,
              !.ideas_accepted = IF accepted = Some(TRUE) THEN @ + 1 ELSE @,
              !.ideas_rejected = IF accepted = Some(FALSE) THEN @ + 1 ELSE @],
    t)

NoCall == [op |-> "none"]
Threads == 1..NumThreads
IdleThreads == [t \in Threads |-> "idle"]
NoTmp == [t \in Threads |-> 0]
NoGhost == [count0 |-> 0, touches |-> 0]
NoEntry == CacheEntry(None, 0, 0, 0)
NoStatus == RefreshStatus(0)
NoSummaries == [i \in SummaryIds |-> None]
NoCycle == RefreshCycle
NoPublish == PublishModel(0)
NoIdea == IdeaModel(None, 0)
NoChat == ChatSession(0)

\* the objects a specification does not use stay as constructed
MemoryIdle ==
  /\ entry = NoEntry
  /\ ghost = NoGhost
  /\ pc = IdleThreads
  /\ tmp = NoTmp
OthersIdle ==
  /\ summaries = NoSummaries
  /\ cycle = NoCycle
  /\ publish = NoPublish
  /\ idea = NoIdea
  /\ chat = NoChat
memVars == <<entry, ghost, pc, tmp>>

\* ================================================================ Spec
\* One cache entry used by one caller: construction, then any sequence of
\* touch, calculate_relevance_score and should_prune calls as time passes.

Init ==
  /\ now = MaxGiven
  /\ \E emb \in Embeddings, c \in 0..MaxGiven, a \in 0..MaxGiven, n \in Counts :
       /\ entry = CacheEntry(emb, c, a, n)
       /\ ghost = [count0 |-> n, touches |-> 0]
  /\ last = NoCall
  /\ pc = IdleThreads
  /\ tmp = NoTmp
  /\ status = NoStatus
  /\ OthersIdle

Tick ==
  /\ now < MaxTime
  /\ now' = now + 1
  /\ last' = NoCall
  /\ UNCHANGED <<entry, ghost, pc, tmp, status,
               summaries, cycle, publish, idea, chat>>

Touch ==
  /\ ghost.touches < MaxTouches
  /\ entry' = touch(entry, now)
  /\ ghost' = [ghost EXCEPT !.touches = @ + 1]
  /\ last' = [op |-> "touch"]
  /\ UNCHANGED <<now, pc, tmp, status,
               summaries, cycle, publish, idea, chat>>

Score_reinforcing ==
  \E q \in Vectors :
    /\ last.op \in {"none", "touch"}
    /\ last' = [op |-> "score", query |-> q,
                result |-> calculate_relevance_score(entry, q)]
    /\ entry' = touch(entry, now)
    /\ UNCHANGED <<now, ghost, pc, tmp, status,
                   summaries, cycle, publish, idea, chat>>

\* A pure call changes nothing but the caller's record of it, so a second
\* pure call right after one reaches no state the first could not: calls
\* are taken from the states a Tick or a Touch leaves.
Score ==
  \E q \in Vectors :
    /\ last.op \in {"none", "touch"}
    /\ last' = [op |-> "score", query |-> q,
                result |-> calculate_relevance_score(entry, q)]
    /\ UNCHANGED <<now, entry, ghost, pc, tmp, status,
               summaries, cycle, publish, idea, chat>>

ShouldPrune ==
  \E th \in Thresholds, m \in MaxAges :
    /\ last.op \in {"none", "touch"}
    /\ last' = [op |-> "should_prune", threshold |-> th, max_age_days |-> m,
                result |-> should_prune(entry, th, m, now)]
    /\ UNCHANGED <<now, entry, ghost, pc, tmp, status,
               summaries, cycle, publish, idea, chat>>

Next == Tick \/ Touch \/ Score \/ ShouldPrune

Spec == Init /\ [][Next]_vars

\* ---------------------------------------------------------------- claims on Spec
LastEmbedding == entry.embedding[1]

\* C1: an entry with an embedding whose relevance score against a query
\* embedding is >= the threshold is not selected by should_prune, whatever
\* its age.
C1_ScoreOverridesAge ==
  last.op = "should_prune" =>
    \A q \in Vectors :
      (/\ entry.embedding # None
       /\ ScoreGE(calculate_relevance_score(entry, q), last.threshold))
      => last.result = FALSE

\* C2: should_prune is false whenever the entry's age in whole days is
\* <= max_age_days, for every threshold and every score.
C2_YoungNeverPruned ==
  (last.op = "should_prune" /\ age_days(entry, now) <= last.max_age_days)
    => last.result = FALSE

\* an entry exactly max_age_days old, scoring 0 against <<0, 1>> under
\* threshold 1.0, was asked and kept
C2_Witness ==
  /\ last.op = "should_prune"
  /\ last.max_age_days = 1
  /\ age_days(entry, now) = 1
  /\ last.threshold = ThresholdDen
  /\ entry.embedding = Some(<<1, 0>>)
  /\ ScoreLT(calculate_relevance_score(entry, <<0, 1>>), last.threshold)
  /\ last.result = FALSE

\* C3: an entry older than max_age_days whose score against the query is
\* below the threshold is pruned; an entry with no embedding is pruned
\* exactly when its age exceeds max_age_days.
C3_OldLowScorePruned ==
  last.op = "should_prune" =>
    /\ \A q \in Vectors :
         (/\ age_days(entry, now) > last.max_age_days
          /\ ScoreLT(calculate_relevance_score(entry, q), last.threshold))
         => last.result = TRUE
    /\ entry.embedding = None =>
         (last.result = TRUE <=> age_days(entry, now) > last.max_age_days)

\* embedding <<1, 0>>, two days old, max_age_days 1, threshold 0.5, query
\* <<0, 1>> scoring 0: pruned
C3_Witness ==
  /\ last.op = "should_prune"
  /\ entry.embedding = Some(<<1, 0>>)
  /\ age_days(entry, now) = 2
  /\ last.max_age_days = 1
  /\ 2 * last.threshold = ThresholdDen
  /\ IsZeroFloat(calculate_relevance_score(entry, <<0, 1>>))
  /\ last.result = TRUE

\* C4: for a non-empty query and a non-empty entry embedding of different
\* lengths, calculate_relevance_score ends with DimensionMismatch and
\* returns no similarity.
C4_DimensionMismatchRaised ==
  (/\ last.op = "score"
   /\ entry.embedding # None
   /\ Len(last.query) > 0
   /\ Len(LastEmbedding) > 0
   /\ Len(LastEmbedding) # Len(last.query))
  => last.result.raised = "DimensionMismatch"

\* C5: for equal-length vectors calculate_relevance_score returns a value
\* in [0, 1].
C5_ScoreInUnitInterval ==
  (/\ last.op = "score"
   /\ entry.embedding # None
   /\ Len(LastEmbedding) = Len(last.query))
  => ScoreInUnit(last.result)

\* C6: calculate_relevance_score returns exactly 0.0 and does not raise
\* when the entry's embedding is None or empty, the query is empty, or
\* either vector has zero magnitude.
C6_ZeroOnAbsentOrZeroVector ==
  (/\ last.op = "score"
   /\ \/ entry.embedding = None
      \/ Len(last.query) = 0
      \/ sum_squares(last.query) = 0
      \/ sum_squares(LastEmbedding) = 0)
  => last.result = Zero

\* a zero-magnitude embedding scored against a non-zero query
C6_Witness ==
  /\ last.op = "score"
  /\ entry.embedding = Some(<<0, 0>>)
  /\ last.query = <<1, 0>>
  /\ last.result = Zero

\* C7: a touch leaves access_count exactly one greater and accessed_at at
\* the current time; after n touches access_count has grown by n, and it
\* never decreases.
C7_TouchIncrements ==
  /\ [](entry.access_count = ghost.count0 + ghost.touches)
  /\ [][/\ last'.op = "touch" =>
             /\ entry'.access_count = entry.access_count + 1
             /\ entry'.accessed_at = now'
        /\ entry'.access_count >= entry.access_count]_vars

\* two touches have been made, the second one just now
C7_Witness ==
  /\ last.op = "touch"
  /\ ghost.touches = 2
  /\ entry.access_count = ghost.count0 + 2
  /\ entry.accessed_at = now
  /\ now > MaxGiven

\* C9: every cache entry satisfies access_count >= 0 and
\* accessed_at >= created_at, because a write breaking either is rejected.
C9_EntryInvariant ==
  /\ entry.access_count >= 0
  /\ entry.accessed_at >= entry.created_at

\* C15: for non-empty vectors u and v of equal length, scoring query u
\* against an entry holding v gives the same value as scoring query v
\* against an entry holding u.
C15_ScoreSymmetric ==
  (/\ last.op = "score"
   /\ entry.embedding # None
   /\ Len(last.query) > 0
   /\ Len(LastEmbedding) = Len(last.query))
  => last.result =
       calculate_relevance_score([entry EXCEPT !.embedding = Some(last.query)],
                                 LastEmbedding)

\* vectors of different magnitude: <<1, 1>> scored against an entry
\* holding <<1, 0>> gives 1 / sqrt(2)
C15_Witness ==
  /\ last.op = "score"
  /\ entry.embedding = Some(<<1, 0>>)
  /\ last.query = <<1, 1>>
  /\ last.result = Float(1, 2)

\* C16: calculate_relevance_score changes no field of the entry
\* (access_count, accessed_at and embedding included), and the value it
\* returned is the value the same call returns again.
C16_ScoreIsPure ==
  /\ [][last'.op = "score" => entry' = entry]_vars
  /\ [](last.op = "score"
          => last.result = calculate_relevance_score(entry, last.query))

\* a non-zero score was returned for an entry last touched earlier, whose
\* access tracking is as the touches left it
C16_Witness ==
  /\ last.op = "score"
  /\ last.result = Float(1, 1)
  /\ ghost.touches = 1
  /\ entry.access_count = ghost.count0 + 1
  /\ entry.accessed_at < now

\* ================================================================ SpecTouchRace
\* NumThreads callers touch the same entry with no lock between them; the
\* statements of touch are separate steps, and access_count += 1 is a read
\* followed by a write.

InitRace ==
  /\ now = MaxGiven
  /\ \E n \in {0, 1} :
       /\ entry = CacheEntry(None, MaxGiven, MaxGiven, n)
       /\ ghost = [count0 |-> n, touches |-> 0]
  /\ last = NoCall
  /\ pc = IdleThreads
  /\ tmp = NoTmp
  /\ status = NoStatus
  /\ OthersIdle

\* self.accessed_at = datetime.utcnow()
TouchStamp(t) ==
  /\ pc[t] = "idle"
  /\ entry' = [entry EXCEPT !.accessed_at = now]
  /\ pc' = [pc EXCEPT ![t] = "load"]
  /\ UNCHANGED <<now, last, ghost, tmp, status,
               summaries, cycle, publish, idea, chat>>

\* self.access_count += 1: the read
TouchLoad(t) ==
  /\ pc[t] = "load"
  /\ tmp' = [tmp EXCEPT ![t] = entry.access_count]
  /\ pc' = [pc EXCEPT ![t] = "store"]
  /\ UNCHANGED <<now, entry, last, ghost, status,
               summaries, cycle, publish, idea, chat>>

\* self.access_count += 1: the write
TouchStore(t) ==
  /\ pc[t] = "store"
  /\ entry' = [entry EXCEPT !.access_count = tmp[t] + 1]
  /\ ghost' = [ghost EXCEPT !.touches = @ + 1]
  /\ pc' = [pc EXCEPT ![t] = "done"]
  /\ UNCHANGED <<now, last, tmp, status,
               summaries, cycle, publish, idea, chat>>

RaceTick ==
  /\ now < MaxTime
  /\ now' = now + 1
  /\ UNCHANGED <<entry, last, ghost, pc, tmp, status,
               summaries, cycle, publish, idea, chat>>

NextRace ==
  \/ \E t \in Threads : TouchStamp(t)
  \/ \E t \in Threads : TouchLoad(t)
  \/ \E t \in Threads : TouchStore(t)
  \/ RaceTick

SpecTouchRace == InitRace /\ [][NextRace]_vars

\* C8: concurrent touches of one entry do not interleave, so once every
\* caller's touch has finished access_count is its initial value plus the
\* number of touches.
C8_NoLostUpdate ==
  (\A t \in Threads : pc[t] = "done")
    => entry.access_count = ghost.count0 + NumThreads

\* ================================================================ SpecRefresh
\* One RefreshStatus record and the calls its class offers.

InitRefresh ==
  /\ now = 0
  /\ status = RefreshStatus(0)
  /\ entry = NoEntry
  /\ ghost = NoGhost
  /\ last = NoCall
  /\ pc = IdleThreads
  /\ tmp = NoTmp
  /\ OthersIdle

MarkComplete ==
  \E success \in BOOLEAN :
    /\ status' = mark_complete(status, success, now)
    /\ UNCHANGED <<now, entry, last, ghost, pc, tmp,
               summaries, cycle, publish, idea, chat>>

AddError ==
  \E error \in Errors :
    /\ Len(status.errors) < MaxErrors
    /\ status' = add_error(status, error)
    /\ UNCHANGED <<now, entry, last, ghost, pc, tmp,
               summaries, cycle, publish, idea, chat>>

RefreshTick ==
  /\ now < MaxTime
  /\ now' = now + 1
  /\ UNCHANGED <<entry, last, ghost, pc, tmp, status,
               summaries, cycle, publish, idea, chat>>

NextRefresh == MarkComplete \/ AddError \/ RefreshTick

SpecRefresh == InitRefresh /\ [][NextRefresh]_vars

\* C10: once completed_at is set, no later call changes completed_at,
\* success or errors of the record.
C10_TerminalOnceCompleted ==
  [][status.completed_at # None =>
       /\ status'.completed_at = status.completed_at
       /\ status'.success = status.success
       /\ status'.errors = status.errors]_vars

\* ================================================================ SpecSummary
\* ContextSummary objects, constructed directly or by add_summary, tested
\* with is_expired and swept as time passes.

InitSummary ==
  /\ now = MaxGiven
  /\ summaries = NoSummaries
  /\ last = NoCall
  /\ status = NoStatus
  /\ MemoryIdle
  /\ cycle = NoCycle
  /\ publish = NoPublish
  /\ idea = NoIdea
  /\ chat = NoChat

NewSummary ==
  \E i \in SummaryIds, created \in 0..MaxGiven, expires \in GivenExpiries :
    /\ summaries[i] = None
    /\ summaries' = [summaries EXCEPT ![i] = Some(ContextSummary(created, expires))]
    /\ last' = [op |-> "new"]
    /\ UNCHANGED <<now, status, memVars, cycle, publish, idea, chat>>

AddSummary ==
  \E i \in SummaryIds, ttl \in Ttls :
    /\ summaries[i] = None
    /\ summaries' = [summaries EXCEPT ![i] = Some(add_summary(now, ttl))]
    /\ last' = [op |-> "add_summary"]
    /\ UNCHANGED <<now, status, memVars, cycle, publish, idea, chat>>

IsExpired ==
  \E i \in SummaryIds :
    /\ summaries[i] # None
    /\ last.op # "is_expired"
    /\ last' = [op |-> "is_expired", id |-> i,
                result |-> is_expired(summaries[i][1], now)]
    /\ UNCHANGED <<now, summaries, status, memVars, cycle, publish, idea, chat>>

ExpireSweep ==
  /\ summaries' = expire_sweep(summaries, now)
  /\ last' = [op |-> "expire_sweep",
              removed |-> {i \in SummaryIds : summaries'[i] # summaries[i]},
              repeat |-> last.op = "expire_sweep",
              prior |-> IF last.op = "expire_sweep" THEN last.removed ELSE {}]
  /\ UNCHANGED <<now, status, memVars, cycle, publish, idea, chat>>

SummaryTick ==
  /\ now < MaxTime
  /\ now' = now + 1
  /\ last' = NoCall
  /\ UNCHANGED <<summaries, status, memVars, cycle, publish, idea, chat>>

NextSummary == NewSummary \/ AddSummary \/ IsExpired \/ ExpireSweep \/ SummaryTick

SpecSummary == InitSummary /\ [][NextSummary]_vars

HasExpiry(i) == summaries[i] # None /\ summaries[i][1].expires_at # None
ExpiryOf(i) == summaries[i][1].expires_at[1]

\* C12: a summary whose expires_at is set and <= now (equality included) is
\* expired and does not survive a sweep; one with expires_at > now is not
\* expired.
C12_ExpiryInclusive ==
  /\ (last.op = "is_expired" /\ HasExpiry(last.id))
       => (last.result = TRUE <=> ExpiryOf(last.id) <= now)
  /\ last.op = "expire_sweep"
       => \A i \in SummaryIds : HasExpiry(i) => ExpiryOf(i) > now

\* C13: a sweep that directly follows a sweep removes nothing, and no sweep
\* removes a summary whose expires_at is unset.
C13_SweepIdempotent ==
  /\ []((last.op = "expire_sweep" /\ last.repeat) => last.removed = {})
  /\ [][last'.op = "expire_sweep" =>
          \A i \in SummaryIds :
            (summaries[i] # None /\ summaries[i][1].expires_at = None)
              => summaries'[i] = summaries[i]]_vars

\* a second sweep right after one that removed a summary, with a summary
\* that never expires still held
C13_Witness ==
  /\ last.op = "expire_sweep"
  /\ last.repeat
  /\ last.prior # {}
  /\ last.removed = {}
  /\ \E i \in SummaryIds : summaries[i] # None /\ summaries[i][1].expires_at = None

\* C14: every ContextSummary has expires_at unset or expires_at >= created_at.
C14_ExpiresNotBeforeCreated ==
  \A i \in SummaryIds :
    HasExpiry(i) => ExpiryOf(i) >= summaries[i][1].created_at

\* ================================================================ SpecCycle
\* The refresh cycle of the design (sections 4.5 and 5) run over the
\* RefreshStatus record of the code: the cycle is not part of the code, its
\* steps use RefreshStatus.add_error and RefreshStatus.mark_complete.

InitCycle ==
  /\ now = 0
  /\ status = NoStatus
  /\ cycle = RefreshCycle
  /\ last = NoCall
  /\ MemoryIdle
  /\ summaries = NoSummaries
  /\ publish = NoPublish
  /\ idea = NoIdea
  /\ chat = NoChat

cycleRest == <<last, memVars, summaries, publish, idea, chat>>

Enqueue ==
  \E u \in UpdateIds \ cycle.sent :
    /\ cycle' = [cycle EXCEPT !.queue = Append(@, u), !.sent = @ \cup {u}]
    /\ UNCHANGED <<now, status, cycleRest>>

StartRun ==
  /\ cycle.phase \in {"Idle", "Completed", "Failed"}
  /\ cycle.runs < MaxRuns
  /\ cycle' = start_run(cycle)
  /\ status' = RefreshStatus(now)
  /\ UNCHANGED <<now, cycleRest>>

\* step 1: on success entries_pruned is recorded; if pruning raises the
\* run is Failed
StepPrune ==
  \E ok \in BOOLEAN, n \in PrunedCounts :
    /\ cycle.phase = "Running" /\ cycle.step = "prune"
    /\ IF ok
       THEN /\ status' = [status EXCEPT !.entries_pruned = n]
            /\ cycle' = step_done(cycle, "prune", TRUE, "summarise")
       ELSE /\ status' = mark_complete(add_error(status, ErrorOf("prune")),
                                       FALSE, now)
            /\ cycle' = [step_done(cycle, "prune", FALSE, "none")
                           EXCEPT !.phase = "Failed"]
    /\ UNCHANGED <<now, cycleRest>>

\* step 2
StepSummarise ==
  \E ok \in BOOLEAN :
    /\ cycle.phase = "Running" /\ cycle.step = "summarise"
    /\ status' = record_step(
                   [status EXCEPT !.summaries_created =
                                     IF ok THEN status.entries_pruned ELSE @],
                   ok, ErrorOf("summarise"))
    /\ cycle' = step_done(cycle, "summarise", ok, "sweep")
    /\ UNCHANGED <<now, cycleRest>>

\* step 3
StepSweep ==
  \E ok \in BOOLEAN :
    /\ cycle.phase = "Running" /\ cycle.step = "sweep"
    /\ status' = record_step(status, ok, ErrorOf("sweep"))
    /\ cycle' = step_done(cycle, "sweep", ok, "push")
    /\ UNCHANGED <<now, cycleRest>>

\* step 4, one ArchiveClient.push: Ack takes the update off the queue;
\* Unavailable records the error and ends the pushes of this run
StepPush ==
  \E outcome \in Outcomes :
    /\ cycle.phase = "Running" /\ cycle.step = "push"
    /\ cycle.queue # <<>>
    /\ IF outcome = "Ack"
       THEN /\ status' = [status EXCEPT !.updates_pushed = @ + 1,
                                        !.mnemosyne_available = TRUE]
            /\ cycle' = [cycle EXCEPT
                           !.queue = queue_after_push(@, outcome),
                           !.acked = @ \cup {Head(cycle.queue)},
                           !.acks = @ + 1]
       ELSE /\ status' = [add_error(status, ErrorOf("push"))
                            EXCEPT !.mnemosyne_available = FALSE]
            /\ cycle' = [step_done(cycle, "push", FALSE, "confidence") EXCEPT
                           !.queue = queue_after_push(@, outcome),
                           !.refused = @ \cup {Head(cycle.queue)}]
    /\ UNCHANGED <<now, cycleRest>>

\* step 4 with nothing left to push
PushDrained ==
  /\ cycle.phase = "Running" /\ cycle.step = "push"
  /\ cycle.queue = <<>>
  /\ cycle' = step_done(cycle, "push", TRUE, "confidence")
  /\ UNCHANGED <<now, status, cycleRest>>

\* cancellation during the push step: the pushes not yet made are abandoned
Cancel ==
  /\ cycle.phase = "Running" /\ cycle.step = "push"
  /\ cycle' = [cycle EXCEPT !.step = "confidence", !.cancelled = TRUE,
                            !.refused = @ \cup Range(cycle.queue)]
  /\ UNCHANGED <<now, status, cycleRest>>

\* step 5 and the transition to Completed
Finish ==
  /\ cycle.phase = "Running" /\ cycle.step = "confidence"
  /\ status' = mark_complete(
                 [status EXCEPT !.context_confidence = confidence(status)],
                 TRUE, now)
  /\ cycle' = [step_done(cycle, "confidence", TRUE, "none")
                 EXCEPT !.phase = "Completed"]
  /\ UNCHANGED <<now, cycleRest>>

CycleTick ==
  /\ now < MaxTime
  /\ now' = now + 1
  /\ UNCHANGED <<status, cycle, cycleRest>>

NextCycle ==
  \/ Enqueue \/ StartRun \/ StepPrune \/ StepSummarise \/ StepSweep
  \/ StepPush \/ PushDrained \/ Cancel \/ Finish \/ CycleTick

SpecCycle == InitCycle /\ [][NextCycle]_vars

\* C11: a run whose pushes all ended Unavailable finishes with success true,
\* mnemosyne_available false, a non-empty errors list and updates_pushed 0.
C11_ArchiveUnavailableDegrades ==
  (/\ cycle.phase = "Completed"
   /\ "push" \in cycle.failed
   /\ cycle.acks = 0)
  => /\ status.completed_at # None
     /\ status.success = TRUE
     /\ status.mnemosyne_available = FALSE
     /\ status.errors # <<>>
     /\ status.updates_pushed = 0

\* two updates were queued, the first push ended Unavailable, the run is
\* Completed and both updates are still queued
C11_Witness ==
  /\ cycle.phase = "Completed"
  /\ cycle.failed = {"push"}
  /\ cycle.acks = 0
  /\ Len(cycle.queue) = 2
  /\ status.success = TRUE
  /\ status.errors = <<"archive">>

PhaseMoves ==
  {<<"Idle", "Running">>, <<"Running", "Completed">>, <<"Running", "Failed">>,
   <<"Completed", "Running">>, <<"Failed", "Running">>}

\* C17: the phase moves Idle -> Running -> Completed or Failed (a finished
\* cycle may run again); Failed is reached only when step 1 raised; a
\* failure of summarising, sweeping or pushing is in the record's errors
\* and the run is Completed, with the later steps executed.
C17_FailedOnlyOnPrune ==
  /\ [](cycle.phase = "Failed" => cycle.failed = {"prune"})
  /\ [](cycle.phase = "Completed" =>
          /\ "prune" \notin cycle.failed
          /\ {"prune", "summarise", "sweep", "confidence"} \subseteq cycle.ran
          /\ cycle.cancelled \/ "push" \in cycle.ran
          /\ \A k \in cycle.failed : ErrorOf(k) \in Range(status.errors)
          /\ status.completed_at # None)
  /\ [][cycle'.phase # cycle.phase
          => <<cycle.phase, cycle'.phase>> \in PhaseMoves]_vars

\* summarising, sweeping and the push all failed, every step ran and the
\* run is Completed
C17_Witness ==
  /\ cycle.phase = "Completed"
  /\ cycle.failed = {"summarise", "sweep", "push"}
  /\ cycle.ran = Steps
  /\ status.errors = <<"summary", "sweep", "archive">>

\* C18: every update that was enqueued is either acknowledged or still in
\* the pending queue, in particular when the next run starts; an update
\* leaves the queue only with an Ack; a cancellation changes neither the
\* queue nor what steps 1-3 recorded.
C18_AtLeastOnce ==
  /\ [](\A u \in cycle.sent : u \in cycle.acked \/ u \in Range(cycle.queue))
  /\ [][/\ \A u \in Range(cycle.queue) :
             u \notin Range(cycle'.queue) => u \in cycle'.acked
        /\ cycle'.runs # cycle.runs =>
             \A u \in cycle.sent \ cycle.acked : u \in Range(cycle'.atStart)
        /\ (cycle'.cancelled /\ ~cycle.cancelled) =>
             (status' = status /\ cycle'.queue = cycle.queue)]_vars

\* the second run starts with an update still queued that an earlier push
\* or a cancellation left unacknowledged
C18_Witness ==
  /\ cycle.runs = 2
  /\ cycle.phase = "Running"
  /\ cycle.step = "prune"
  /\ cycle.refused # {}
  /\ cycle.refused \cap cycle.acked = {}
  /\ cycle.refused \subseteq Range(cycle.atStart)

\* ================================================================ SpecPublish
\* One PublishModel, constructed with its defaults and changed through its
\* methods in any order. last.fails counts the mark_failed calls made.

InitPublish ==
  /\ now = 0
  /\ publish = PublishModel(0)
  /\ last = [op |-> "new", flow |-> "new", fails |-> 0]
  /\ status = NoStatus
  /\ MemoryIdle
  /\ summaries = NoSummaries
  /\ cycle = NoCycle
  /\ idea = NoIdea
  /\ chat = NoChat

publishRest == <<now, status, memVars, summaries, cycle, idea, chat>>

Approve ==
  \E notes \in Notes :
    /\ publish' = approve(publish, notes, now)
    /\ last' = [op |-> "approve", notes |-> notes,
                flow |-> Flow(last.flow, "approve"),
                fails |-> last.fails]
    /\ UNCHANGED publishRest

Schedule ==
  /\ publish' = schedule(publish, now + 1, now)
  /\ last' = [op |-> "schedule", flow |-> Flow(last.flow, "schedule"),
                fails |-> last.fails]
  /\ UNCHANGED publishRest

MarkPublishing ==
  /\ publish' = mark_publishing(publish, now)
  /\ last' = [op |-> "mark_publishing",
              flow |-> Flow(last.flow, "mark_publishing"),
                fails |-> last.fails]
  /\ UNCHANGED publishRest

MarkPublished ==
  \E post_id \in PostIds, url \in Urls :
    /\ publish' = mark_published(publish, post_id, url, now)
    /\ last' = [op |-> "mark_published", post_id |-> post_id, url |-> url,
                at |-> now, raised |-> mark_published_raises(url),
                flow |-> Flow(last.flow, "mark_published"),
                fails |-> last.fails]
    /\ UNCHANGED publishRest

MarkFailed ==
  \E message \in Messages :
    /\ publish.retry_count < MaxRetries
    /\ last.fails < MaxRetries
    /\ publish' = mark_failed(publish, message, now)
    /\ last' = [op |-> "mark_failed",
                flow |-> Flow(last.flow, "mark_failed"),
                fails |-> last.fails + 1]
    /\ UNCHANGED publishRest

CancelPublish ==
  /\ publish' = cancel(publish, now)
  /\ last' = [op |-> "cancel", flow |-> Flow(last.flow, "cancel"),
                fails |-> last.fails]
  /\ UNCHANGED publishRest

UpdateMetrics ==
  /\ publish' = update_metrics(publish, "metrics", now)
  /\ last' = [op |-> "update_metrics",
              flow |-> Flow(last.flow, "update_metrics"),
                fails |-> last.fails]
  /\ UNCHANGED publishRest

PublishTick ==
  /\ now < MaxPublishTime
  /\ now' = now + 1
  /\ UNCHANGED <<publish, last, status, memVars, summaries, cycle, idea, chat>>

NextPublish ==
  \/ Approve \/ Schedule \/ MarkPublishing \/ MarkPublished \/ MarkFailed
  \/ CancelPublish \/ UpdateMetrics \/ PublishTick

SpecPublish == InitPublish /\ [][NextPublish]_vars

C22_PublishedHasRecord ==
  publish.status = "published" =>
    /\ publish.platform_post_id # None
    /\ publish.platform_url # None
    /\ publish.published_at # None

\* C23: retry_count always equals the number of mark_failed calls made so
\* far (it never decreases and no other method changes it), and every state
\* with status FAILED has error_message set and retry_count >= 1.
C23_RetryCountsFailures ==
  /\ [](/\ publish.retry_count = last.fails
        /\ publish.status = "failed" =>
             (publish.error_message # None /\ publish.retry_count >= 1))
  /\ [][/\ publish'.retry_count >= publish.retry_count
        /\ MarkFailed => publish'.retry_count = publish.retry_count + 1
        /\ ~MarkFailed => publish'.retry_count = publish.retry_count]_vars

\* a record that failed, was approved and published, and failed again: two
\* mark_failed calls with other calls between them
C23_Witness ==
  /\ last.op = "mark_failed"
  /\ last.fails = 2
  /\ publish.retry_count = 2
  /\ publish.status = "failed"
  /\ publish.error_message = Some("timeout")
  /\ publish.approval_notes # None
  /\ publish.published_at # None

\* ================================================================ SpecIdea
\* One IdeaModel, constructed with or without a score and in any status,
\* asked is_above_threshold, approved and rejected as time passes.

InitIdea ==
  /\ now = 0
  /\ \E score \in IdeaScores, st \in IdeaStatuses :
       idea = [IdeaModel(score, 0) EXCEPT !.status = st]
  /\ last = NoCall
  /\ status = NoStatus
  /\ MemoryIdle
  /\ summaries = NoSummaries
  /\ cycle = NoCycle
  /\ publish = NoPublish
  /\ chat = NoChat

ideaRest == <<status, memVars, summaries, cycle, publish, chat>>

IsAboveThreshold ==
  \E threshold \in IdeaThresholds :
    /\ last.op # "is_above_threshold"
    /\ last' = [op |-> "is_above_threshold", threshold |-> threshold,
                result |-> is_above_threshold(idea, threshold)]
    /\ UNCHANGED <<now, idea, ideaRest>>

ApproveIdea ==
  /\ idea' = approve_idea(idea, now)
  /\ last' = [op |-> "approve", from |-> idea.status]
  /\ UNCHANGED <<now, ideaRest>>

RejectIdea ==
  /\ idea' = reject_idea(idea, now)
  /\ last' = [op |-> "reject", from |-> idea.status]
  /\ UNCHANGED <<now, ideaRest>>

IdeaTick ==
  /\ now < MaxTime
  /\ now' = now + 1
  /\ last' = NoCall
  /\ UNCHANGED <<idea, ideaRest>>

NextIdea == IsAboveThreshold \/ ApproveIdea \/ RejectIdea \/ IdeaTick

SpecIdea == InitIdea /\ [][NextIdea]_vars

\* C20: is_above_threshold(t) is true exactly when the idea has a score and
\* score.overall >= t, the boundary overall == t included, and false for
\* every t when the idea has no score.
C20_AboveThreshold ==
  last.op = "is_above_threshold" =>
    /\ idea.score # None =>
         (last.result = TRUE <=> idea.score[1] >= last.threshold)
    /\ idea.score = None => last.result = FALSE

\* an idea whose overall equals the threshold is above it
C20_Witness ==
  /\ last.op = "is_above_threshold"
  /\ idea.score = Some(1)
  /\ last.threshold = 1
  /\ last.result = TRUE

\* C21: from any prior status approve leaves status APPROVED and reject
\* leaves status REJECTED, and each call changes only status and updated_at:
\* id, title, score, topics and created_at stay as they were.
C21_ApproveRejectFrame ==
  /\ [](/\ last.op = "approve" => idea.status = "approved"
        /\ last.op = "reject" => idea.status = "rejected")
  /\ [][(ApproveIdea \/ RejectIdea) =>
          \A f \in IdeaFrame : idea'[f] = idea[f]]_vars

\* a rejected, scored idea approved at a later time: the status and
\* updated_at moved, the score and created_at did not
C21_Witness ==
  /\ last.op = "approve"
  /\ last.from = "rejected"
  /\ idea.status = "approved"
  /\ idea.score = Some(1)
  /\ idea.created_at = 0
  /\ idea.updated_at > 0

\* ================================================================ SpecChat
\* One ChatSession, constructed with its defaults, given topics and recorded
\* ideas in any order as time passes. last.ideas counts the record_idea
\* calls made and last.calls lists the add_topic calls made, oldest first.

InitChat ==
  /\ now = 0
  /\ chat = ChatSession(0)
  /\ last = [op |-> "new", ideas |-> 0, calls |-> <<>>]
  /\ status = NoStatus
  /\ MemoryIdle
  /\ summaries = NoSummaries
  /\ cycle = NoCycle
  /\ publish = NoPublish
  /\ idea = NoIdea

chatRest == <<now, status, memVars, summaries, cycle, publish, idea>>

RecordIdea ==
  \E accepted \in Accepted :
    /\ chat.ideas_generated < MaxIdeas
    /\ last.ideas < MaxIdeas
    /\ chat' = record_idea(chat, accepted, now)
    /\ last' = [last EXCEPT !.op = "record_idea", !.ideas = @ + 1]
    /\ UNCHANGED chatRest

AddTopic ==
  \E topic \in ChatTopics, weight \in Weights :
    /\ Len(last.calls) < MaxAddTopics
    /\ chat' = add_topic(chat, topic, weight)
    /\ last' = [last EXCEPT !.op = "add_topic",
                           !.calls = Append(@, [topic |-> topic,
                                                weight |-> weight])]
    /\ UNCHANGED chatRest

ChatTick ==
  /\ now < MaxChatTime
  /\ now' = now + 1
  /\ UNCHANGED <<chat, last, status, memVars, summaries, cycle, publish, idea>>

NextChat == RecordIdea \/ AddTopic \/ ChatTick

SpecChat == InitChat /\ [][NextChat]_vars

\* C24: under any sequence of record_idea calls, ideas_accepted +
\* ideas_rejected <= ideas_generated, and ideas_generated equals the number
\* of record_idea calls.
C24_IdeaCounters ==
  /\ chat.ideas_accepted + chat.ideas_rejected <= chat.ideas_generated
  /\ chat.ideas_generated = last.ideas

\* two ideas recorded, one accepted and one without feedback: the sum of
\* accepted and rejected is below the number generated
C24_Witness ==
  /\ last.ideas = 2
  /\ chat.ideas_generated = 2
  /\ chat.ideas_accepted = 1
  /\ chat.ideas_rejected = 0
  /\ chat.last_message_at # None

\* the positions of the first and of the most recent add_topic call for a
\* topic in the calls made
FirstCall(calls, topic) ==
  CHOOSE k \in 1..Len(calls) :
    /\ calls[k].topic = topic
    /\ \A j \in 1..(k - 1) : calls[j].topic # topic
LastCall(calls, topic) ==
  CHOOSE k \in 1..Len(calls) :
    /\ calls[k].topic = topic
    /\ \A j \in (k + 1)..Len(calls) : calls[j].topic # topic

\* C25: under any sequence of add_topic calls the topics list holds no
\* duplicate, the keys of topic_weights are the topics, topics is in
\* first-insertion order, and topic_weights[topic] is the weight of the most
\* recent add_topic call for that topic.
C25_TopicsAndWeights ==
  LET topics == chat.topics
      calls == last.calls
      called == {calls[k].topic : k \in 1..Len(calls)}
  IN /\ \A i, j \in 1..Len(topics) : i # j => topics[i] # topics[j]
     /\ DOMAIN chat.topic_weights = {topics[i] : i \in 1..Len(topics)}
     /\ DOMAIN chat.topic_weights = called
     /\ \A i, j \in 1..Len(topics) :
          i < j => FirstCall(calls, topics[i]) < FirstCall(calls, topics[j])
     /\ \A t \in called :
          chat.topic_weights[t] = calls[LastCall(calls, t)].weight

\* "ml" added, "ai" added, "ml" added again with another weight: "ml" keeps
\* its first place and carries the later weight
C25_Witness ==
  /\ Len(last.calls) = 3
  /\ last.calls[1].topic = "ml"
  /\ last.calls[3] = [topic |-> "ml", weight |-> 2]
  /\ chat.topics = <<"ml", "ai">>
  /\ chat.topic_weights["ml"] = 2
  /\ chat.topic_weights["ai"] = 1

====
